---- MODULE Spec2Model ----
(***************************************************************************)
(* Model of build.rs: the build hook that parses config.txt, mirrors the   *)
(* crate directory into <manifest>/changelog and drives git over it.       *)
(*                                                                         *)
(* Strings are sequences of lexemes.  A lexeme is one delimiter character  *)
(* (",", ":"), one whitespace character (" ", "\n"), one double quote, or  *)
(* a word: a maximal run of other characters.  Two words are never         *)
(* adjacent, so splitting on a delimiter, trimming whitespace and string   *)
(* equality on lexeme sequences coincide with the same operations on the   *)
(* characters.                                                             *)
(***************************************************************************)
EXTENDS Integers, Sequences, FiniteSets, TLC

VARIABLES
    text,        \* the text handed to parse_config
    pairs,       \* the segments the text was written from
    log_file,    \* the log sink: [open, lines]
    parsed,      \* the result of parse_config
    fs,          \* the manifest directory: relative path -> entry
    env,         \* what the outside world answers: ignore rules, I/O errors
    mirrored,    \* the outcome of the latest copy_files_to_changelog
    count,       \* mirrors run in a row over the unchanged source
    afterFirst,  \* the manifest directory after the first of them
    edits,       \* edits of the source or of config.txt so far
    pc,          \* where main is: the next step, "done" or "panicked"
    config,      \* main's config: the result of read_config
    gitOps,      \* the external commands of this run, with their outcomes
    remote,      \* the URL registered as origin in the changelog repository
    runs,        \* builds started so far
    fsAtStart,   \* the manifest directory when this run started
    panic        \* the message of the panic that ended this run

vars == <<text, pairs, log_file, parsed, fs, env, mirrored, count, afterFirst,
          edits, pc, config, gitOps, remote, runs, fsAtStart, panic>>

parseVars == <<text, pairs, log_file, parsed>>
mirrorVars == <<fs, env, mirrored, count, afterFirst, edits>>
runVars == <<pc, config, gitOps, remote, runs, fsAtStart, panic>>

\* ------------------------------------------------------------------------
\* Bounds
\* ------------------------------------------------------------------------
MaxSegs == 4
MaxMirrors == 2
MaxEdits == 1
MaxRuns == 2

\* ------------------------------------------------------------------------
\* Strings
\* ------------------------------------------------------------------------
Whitespace == {" ", "\n"}

RECURSIVE Split(_, _)
\* str::split(d): the pieces between the occurrences of d; always >= 1 piece
Split(s, d) ==
    IF \A i \in 1..Len(s) : s[i] # d
    THEN <<s>>
    ELSE LET i == CHOOSE j \in 1..Len(s) : s[j] = d /\ \A k \in 1..(j-1) : s[k] # d
         IN  <<SubSeq(s, 1, i-1)>> \o Split(SubSeq(s, i+1, Len(s)), d)

RECURSIVE Join(_, _)
\* [&str]::join(d)
Join(parts, d) ==
    IF Len(parts) = 0 THEN <<>>
    ELSE IF Len(parts) = 1 THEN parts[1]
    ELSE parts[1] \o d \o Join(Tail(parts), d)

\* a mutant of Trim: no trimming at all
TrimNone(s) == s

\* str::trim(): drop leading and trailing whitespace
Trim(s) ==
    LET keep == {i \in 1..Len(s) : s[i] \notin Whitespace}
    IN  IF keep = {} THEN <<>>
        ELSE LET lo == CHOOSE i \in keep : \A j \in keep : i <= j
                 hi == CHOOSE i \in keep : \A j \in keep : j <= i
             IN  SubSeq(s, lo, hi)

\* ------------------------------------------------------------------------
\* Logger
\* ------------------------------------------------------------------------
\* A log sink is [open |-> BOOLEAN, lines |-> sequence of messages].
\* An operation that logs yields [sink, panic]: log() panics without a sink.
NoSink == [open |-> FALSE, lines |-> <<>>]
EmptySink == [open |-> TRUE, lines |-> <<>>]

log(sink, msg) ==
    IF sink.open
    THEN [sink |-> [sink EXCEPT !.lines = Append(@, msg)], panic |-> FALSE]
    ELSE [sink |-> sink, panic |-> TRUE]

\* ------------------------------------------------------------------------
\* Config Loader
\* ------------------------------------------------------------------------
None == [some |-> FALSE, val |-> <<>>]
Some(v) == [some |-> TRUE, val |-> v]

NoConfig == [participant_id |-> <<>>, git_password |-> <<>>, project |-> <<>>]

\* a mutant of Malformed: only a segment without a colon is rejected
MalformedNoColon(assign_split) == Len(assign_split) < 2

\* build.rs:238  assign_split.len() != 2
Malformed(assign_split) == Len(assign_split) # 2

\* a mutant of Missing: the git_password check is left out
MissingNoPwd(id, pwd, proj) ==
    IF ~id.some THEN "participant_id"
    ELSE IF ~proj.some THEN "project"
    ELSE ""

\* build.rs:255-266  the first required key that was never set, "" if none
Missing(id, pwd, proj) ==
    IF ~id.some THEN "participant_id"
    ELSE IF ~pwd.some THEN "git_password"
    ELSE IF ~proj.some THEN "project"
    ELSE ""

\* the outcome of a call that logs msgs and then returns None
Fail(sink, msgs) ==
    LET l1 == log(sink, msgs[1])
        l2 == IF Len(msgs) > 1 /\ ~l1.panic THEN log(l1.sink, msgs[2]) ELSE l1
    IN  [kind |-> IF l2.panic THEN "Panic" ELSE "None",
         config |-> NoConfig, sink |-> l2.sink]

RECURSIVE ParseLoop(_, _, _, _, _)
\* build.rs:236-253  the loop over the comma-separated segments
ParseLoop(sink, segs, id, pwd, proj) ==
    IF segs = <<>>
    THEN IF Missing(id, pwd, proj) # ""
         THEN Fail(sink, << <<"failed to parse config.txt: missing ",
                              Missing(id, pwd, proj)>> >>)
         ELSE [kind |-> "Some",
               config |-> [participant_id |-> id.val,
                           git_password |-> pwd.val,
                           project |-> proj.val],
               sink |-> sink]
    ELSE LET assign_split == Split(Head(segs), ":")
         IN  IF Malformed(assign_split)
             THEN Fail(sink, << <<"failed to parse config.txt">>,
                                Join(assign_split, <<":">>) >>)
             ELSE LET key == Trim(assign_split[1])
                      val == Trim(assign_split[2])
                  IN  ParseLoop(sink, Tail(segs),
                          IF key = <<"participant_id">> THEN Some(val) ELSE id,
                          IF key = <<"git_password">> THEN Some(val) ELSE pwd,
                          IF key = <<"project">> THEN Some(val) ELSE proj)

\* build.rs:228-270
parse_config(sink, t) == ParseLoop(sink, Split(t, ","), None, None, None)

\* ------------------------------------------------------------------------
\* File system
\* ------------------------------------------------------------------------
\* fs maps the paths that exist, relative to CARGO_MANIFEST_DIR, to a
\* directory or to a file with its bytes.  The manifest directory itself is
\* the empty path.
Dir == [kind |-> "dir", data |-> <<>>]
File(bytes) == [kind |-> "file", data |-> bytes]

Parent(p) == SubSeq(p, 1, Len(p) - 1)
Name(p) == p[Len(p)]

IsDir(f, p) == p = <<>> \/ (p \in DOMAIN f /\ f[p].kind = "dir")
IsFile(f, p) == p \in DOMAIN f /\ f[p].kind = "file"

Put(f, p, e) == [q \in DOMAIN f \cup {p} |-> IF q = p THEN e ELSE f[q]]

Children(f, dir) == {p \in DOMAIN f : Len(p) = Len(dir) + 1 /\ Parent(p) = dir}

NameRank(n) ==
    CASE n = ".git" -> 1
      [] n = "Cargo.toml" -> 2
      [] n = "changelog" -> 3
      [] n = "config" -> 4
      [] n = "config.txt" -> 5
      [] n = "main.rs" -> 6
      [] n = "rustc.version" -> 7
      [] n = "src" -> 8

\* std::fs::read_dir: the entries of a directory, in one of the two orders
\* the model lets the file system produce
ReadDir(f, dir, rev) ==
    LET c == Children(f, dir)
        n == Cardinality(c)
        up == [i \in 1..n |->
                 CHOOSE p \in c :
                     Cardinality({q \in c : NameRank(Name(q)) < NameRank(Name(p))}) = i - 1]
    IN  IF rev THEN [i \in 1..n |-> up[n + 1 - i]] ELSE up

\* build.rs:33  <manifest>/changelog
changelog_path == <<"changelog">>

\* ------------------------------------------------------------------------
\* Directory Mirror
\* ------------------------------------------------------------------------
\* The traversal threads a record through every step:
\*   fs      the file system,
\*   sink    the log sink,
\*   written the destination paths created or copied into,
\*   status  "ok", or "panic" once an unwrap/expect/log has panicked.

\* a mutant of Excluded: .git is walked like any other entry
ExcludedOnlyChangelog(path) == Name(path) = "changelog"

\* build.rs:103  Path::ends_with compares the last component
Excluded(path) == Name(path) = ".git" \/ Name(path) = "changelog"

Logged(st, msg) ==
    LET l == log(st.sink, msg)
    IN  [st EXCEPT !.sink = l.sink, !.status = IF l.panic THEN "panic" ELSE @]

\* build.rs:127  DirBuilder::new().create(dest_path): not recursive, fails
\* on an existing entry; the error is dropped
CreateDir(st, dest_path) ==
    IF dest_path \notin DOMAIN st.fs /\ IsDir(st.fs, Parent(dest_path))
    THEN [st EXCEPT !.fs = Put(@, dest_path, Dir),
                    !.written = @ \cup {dest_path}]
    ELSE st

\* the error of std::fs::copy(path, dest_path), "" when it succeeds
CopyError(f, e, path, dest_path) ==
    IF path \in e.copyErr THEN "Permission denied"
    ELSE IF ~IsDir(f, Parent(dest_path)) THEN "No such file or directory"
    ELSE IF IsDir(f, dest_path) THEN "Is a directory"
    ELSE ""

\* a mutant of CopyFailed: a failed copy ends the traversal
CopyFailedStops(st, err_text) ==
    [Logged(Logged(Logged(st, <<"failed to copy file: ">>), <<err_text>>), <<err_text>>)
        EXCEPT !.status = "stopped"]

\* build.rs:137-142  the failure is logged, nothing else happens
CopyFailed(st, err_text) ==
    LET l1 == Logged(st, <<"failed to copy file: ">>)
        l2 == IF l1.status = "ok" THEN Logged(l1, <<err_text>>) ELSE l1
    IN  IF l2.status = "ok" THEN Logged(l2, <<err_text>>) ELSE l2

\* a mutant of Copied: the bytes are appended to the destination file
CopiedAppend(old, bytes) == old \o bytes

\* std::fs::copy: the destination gets the bytes of the source
Copied(old, bytes) == bytes

\* build.rs:136-143
CopyFile(st, e, path, dest_path) ==
    LET err == CopyError(st.fs, e, path, dest_path)
        old == IF dest_path \in DOMAIN st.fs THEN st.fs[dest_path].data ELSE <<>>
    IN  IF err = ""
        THEN [st EXCEPT !.fs = Put(@, dest_path, File(Copied(old, st.fs[path].data))),
                        !.written = @ \cup {dest_path}]
        ELSE CopyFailed(st, err)

RECURSIVE copy_files_to_changelog(_, _, _)
RECURSIVE VisitEntries(_, _, _)
RECURSIVE VisitEntry(_, _, _)

\* build.rs:100-147  the body of the loop for one directory entry
VisitEntry(st, e, path) ==
    IF Excluded(path) THEN st
    ELSE IF path \in e.spawnErr THEN [st EXCEPT !.status = "panic"]
    ELSE IF path \in e.ignored THEN st
    ELSE LET st1 == Logged(st, path)
             dest_path == changelog_path \o path
         IN  IF st1.status # "ok" THEN st1
             ELSE IF IsDir(st1.fs, path)
             THEN LET st2 == CreateDir(st1, dest_path)
                  IN  IF path \in e.readErr
                      THEN [st2 EXCEPT !.status = "panic"]
                      ELSE copy_files_to_changelog(st2, e, path)
             ELSE CopyFile(st1, e, path, dest_path)

\* build.rs:99  for entry in dir_iter
VisitEntries(st, e, entries) ==
    IF entries = <<>> \/ st.status # "ok" THEN st
    ELSE VisitEntries(VisitEntry(st, e, Head(entries)), e, Tail(entries))

\* build.rs:96-149  called with the iterator over dir
copy_files_to_changelog(st, e, dir) ==
    VisitEntries(st, e, ReadDir(st.fs, dir, e.rev))

\* ------------------------------------------------------------------------
\* Source trees and environments
\* ------------------------------------------------------------------------
Bytes == { <<"v1">>, <<"v2">> }

SrcDir == <<"src">>
MainRs == <<"src", "main.rs">>
CargoToml == <<"Cargo.toml">>
DotGit == <<".git">>
DotGitConfig == <<".git", "config">>

Empty == [p \in {} |-> Dir]

WithGit(f, b) == IF b THEN Put(Put(f, DotGit, Dir), DotGitConfig, File(<<"v1">>)) ELSE f

\* src is absent, a file, an empty directory or a directory with main.rs
SrcOptions ==
    {Empty, Put(Empty, SrcDir, File(<<"v1">>)), Put(Empty, SrcDir, Dir)}
      \cup {Put(Put(Empty, SrcDir, Dir), MainRs, File(b)) : b \in Bytes}

CargoOptions == {Empty} \cup {Put(Empty, CargoToml, File(b)) : b \in Bytes}

Without(f, ps) == [p \in DOMAIN f \ ps |-> f[p]]

Merge(f, g) == [p \in DOMAIN f \cup DOMAIN g |-> IF p \in DOMAIN g THEN g[p] ELSE f[p]]

SourceTrees ==
    { WithGit(Merge(s, c), g) :
        s \in SrcOptions,
        c \in CargoOptions,
        g \in BOOLEAN }

AtMostOne(S) == {{}} \cup {{x} : x \in S}

Envs ==
    [ignored  : AtMostOne({SrcDir, MainRs, CargoToml}),
     spawnErr : AtMostOne({CargoToml}),
     copyErr  : AtMostOne({MainRs, CargoToml}),
     readErr  : AtMostOne({SrcDir}),
     rev      : BOOLEAN]

NoEnv == [ignored |-> {}, spawnErr |-> {}, copyErr |-> {}, readErr |-> {}, rev |-> FALSE]

\* the destination right after the bootstrap: the directory and its repository
FreshChangelog == Put(Put(Empty, changelog_path, Dir), changelog_path \o DotGit, Dir)

NotParsed == [kind |-> "Pending", config |-> NoConfig, sink |-> NoSink]

NoMirror == [written |-> {}, status |-> "none"]

\* main's config before read_config has returned
Unread == [kind |-> "unread", val |-> NoConfig]

\* no build is running
RunIdle ==
    /\ pc = "idle"
    /\ config = Unread
    /\ gitOps = <<>>
    /\ remote = None
    /\ runs = 0
    /\ fsAtStart = Empty
    /\ panic = ""

MirrorInit ==
    /\ fs \in {Merge(t, FreshChangelog) : t \in SourceTrees}
    /\ env \in Envs
    /\ log_file = EmptySink
    /\ mirrored = NoMirror
    /\ count = 0
    /\ afterFirst = fs
    /\ edits = 0
    /\ text = <<>> /\ pairs = <<>> /\ parsed = NotParsed
    /\ RunIdle

\* copy_files_to_changelog over the manifest directory
Mirror ==
    /\ count < MaxMirrors
    /\ LET st == copy_files_to_changelog(
                    [fs |-> fs, sink |-> EmptySink, written |-> {}, status |-> "ok"],
                    env, <<>>)
       IN  /\ fs' = st.fs
           /\ log_file' = st.sink
           /\ mirrored' = [written |-> st.written, status |-> st.status]
           /\ afterFirst' = IF count = 0 THEN st.fs ELSE afterFirst
    /\ count' = count + 1
    /\ UNCHANGED <<env, edits, text, pairs, parsed, runVars>>

\* the user saves a source file between two builds
EditSource ==
    /\ edits < MaxEdits
    /\ \/ \E s \in SrcOptions : fs' = Merge(Without(fs, {SrcDir, MainRs}), s)
       \/ \E c \in CargoOptions : fs' = Merge(Without(fs, {CargoToml}), c)
    /\ fs' # fs
    /\ edits' = edits + 1
    /\ count' = 0
    /\ afterFirst' = fs'
    /\ UNCHANGED <<env, mirrored, log_file, text, pairs, parsed, runVars>>

MirrorNext == Mirror \/ EditSource

SpecMirror == MirrorInit /\ [][MirrorNext]_vars

\* ------------------------------------------------------------------------
\* Claims about the mirror
\* ------------------------------------------------------------------------
HasPrefix(p, q) == Len(p) >= Len(q) /\ SubSeq(p, 1, Len(q)) = q

\* the destination tree
Dest(f) == [p \in {q \in DOMAIN f : HasPrefix(q, changelog_path)} |-> f[p]]

\* C5: the mirror never creates or copies into the destination the top-level
\* entry .git or changelog of the source, nor anything beneath it.
C5_NeverCopiesExcluded ==
    \A p \in mirrored.written :
        /\ HasPrefix(p, changelog_path)
        /\ Len(p) >= 2 => p[2] \notin {".git", "changelog"}

C5_Witness ==
    /\ mirrored.status = "ok"
    /\ count = 2
    /\ DotGitConfig \in DOMAIN fs
    /\ changelog_path \o MainRs \in mirrored.written
    /\ changelog_path \o MainRs \in DOMAIN afterFirst

\* C6: a second mirror in a row over the unchanged source leaves the
\* destination tree exactly as the first one left it.
C6_MirrorIdempotent ==
    count >= 2 => Dest(fs) = Dest(afterFirst)

C6_Witness ==
    /\ count = 2
    /\ edits = 1
    /\ mirrored.status = "ok"
    /\ changelog_path \o MainRs \in mirrored.written
    /\ changelog_path \o CargoToml \in mirrored.written

\* the entries the traversal has to process: no component of the path is
\* named .git or changelog, and neither the entry nor a directory above it
\* is ignored
Eligible ==
    {p \in DOMAIN fs :
        \A k \in 1..Len(p) :
            /\ p[k] \notin {".git", "changelog"}
            /\ SubSeq(p, 1, k) \notin env.ignored}

Lines == log_file.lines

FailedCopies == {i \in 1..Len(Lines) : Lines[i] = <<"failed to copy file: ">>}

CannotCopy(p) ==
    \/ p \in env.copyErr
    \/ ~IsDir(fs, Parent(changelog_path \o p))
    \/ IsDir(fs, changelog_path \o p)

\* C7: when the copy of a file fails in a mirror that runs to its end, the
\* failure is logged and every entry to process is still processed: each is
\* logged, and each file that can be copied has its bytes in the destination.
C7_CopyFailureContinues ==
    (count >= 1 /\ mirrored.status # "panic" /\ \E p \in Eligible : IsFile(fs, p) /\ CannotCopy(p)) =>
        /\ Cardinality(FailedCopies) = Cardinality({p \in Eligible : IsFile(fs, p) /\ CannotCopy(p)})
        /\ \A p \in Eligible :
              /\ \E i \in 1..Len(Lines) : Lines[i] = p
              /\ (IsFile(fs, p) /\ ~CannotCopy(p)) =>
                    /\ changelog_path \o p \in mirrored.written
                    /\ fs[changelog_path \o p] = fs[p]
              /\ IsDir(fs, p) /\ IsDir(fs, Parent(changelog_path \o p))
                    => changelog_path \o p \in DOMAIN fs

C7_Witness ==
    /\ count >= 1
    /\ mirrored.status = "ok"
    /\ \E i \in FailedCopies : \E j \in (i+1)..Len(Lines) :
          /\ Lines[j] = MainRs
          /\ changelog_path \o MainRs \in mirrored.written
          /\ Lines[i-1] = CargoToml

\* ------------------------------------------------------------------------
\* Inputs of the parser
\* ------------------------------------------------------------------------
\* An input is written from a sequence of segment descriptors.  `pairs`
\* keeps the descriptors next to the text: what each segment's key and value
\* are, as written, and whether the segment is a pair at all.
Keys == {"participant_id", "git_password", "project", "extra"}
Required == {"participant_id", "git_password", "project"}
Values == { <<"592089">>, <<"p1">>, <<>> }
Styles == {"tight", "spaced", "quoted"}

Quoted(s) == <<"\"">> \o s \o <<"\"">>

PairDescs(style) ==
    { [shape |-> "pair",
       key |-> IF style = "quoted" THEN Quoted(<<k>>) ELSE <<k>>,
       val |-> IF style = "quoted" THEN Quoted(v) ELSE v] : k \in Keys, v \in Values }

\* a segment without a colon and a segment with two colons
BadDescs ==
    { [shape |-> "nocolon", key |-> <<"oops">>, val |-> <<>>],
      [shape |-> "twocolons", key |-> <<"extra">>, val |-> <<"p1">>] }

Descs(style) == PairDescs(style) \cup BadDescs

Gap(style) == IF style = "tight" THEN <<>> ELSE <<" ">>

Separator(style) ==
    CASE style = "tight"  -> <<",">>
      [] style = "spaced" -> <<",", " ">>
      [] style = "quoted" -> <<",", "\n", " ", " ">>

RenderSeg(d, style) ==
    CASE d.shape = "pair"      -> d.key \o <<":">> \o Gap(style) \o d.val
      [] d.shape = "nocolon"   -> d.key
      [] d.shape = "twocolons" -> d.key \o <<":">> \o d.val \o <<":">> \o d.val

\* the spaced style ends the text with a newline, as a text file does
Render(ds, style) ==
    Join([i \in 1..Len(ds) |-> RenderSeg(ds[i], style)], Separator(style))
      \o IF style = "spaced" THEN <<"\n">> ELSE <<>>

\* the text of tests::test_read_config (build.rs:294-297)
TestPairs ==
    << [shape |-> "pair", key |-> Quoted(<<"participant_id">>), val |-> Quoted(<<"592089">>)],
       [shape |-> "pair", key |-> Quoted(<<"git_password">>), val |-> Quoted(<<"985613">>)],
       [shape |-> "pair", key |-> Quoted(<<"project">>), val |-> Quoted(<<"p1">>)] >>

Indent == [i \in 1..12 |-> " "]

TestText ==
    Quoted(<<"participant_id">>) \o <<":", " ">> \o Quoted(<<"592089">>)
      \o <<",", "\n">> \o Indent
      \o Quoted(<<"git_password">>) \o <<":", " ">> \o Quoted(<<"985613">>)
      \o <<",", "\n">> \o Indent
      \o Quoted(<<"project">>) \o <<":">> \o Quoted(<<"p1">>)

ParseInit ==
    /\ \/ \E style \in Styles, n \in 1..MaxSegs :
            /\ pairs \in [1..n -> Descs(style)]
            /\ text = Render(pairs, style)
       \/ /\ pairs = TestPairs
          /\ text = TestText
    /\ log_file \in {NoSink, EmptySink}
    /\ parsed = NotParsed
    /\ fs = Empty /\ env = NoEnv /\ mirrored = NoMirror
    /\ count = 0 /\ afterFirst = Empty /\ edits = 0
    /\ RunIdle

\* a call parse_config(&mut log_file, text)
ParseConfig ==
    /\ parsed.kind = "Pending"
    /\ parsed' = parse_config(log_file, text)
    /\ UNCHANGED <<text, pairs, log_file, mirrorVars, runVars>>

ParseNext == ParseConfig

SpecParse == ParseInit /\ [][ParseNext]_vars

\* ------------------------------------------------------------------------
\* Claims about the parser
\* ------------------------------------------------------------------------
Returned == parsed.kind # "Pending"

Field(k) ==
    CASE k = "participant_id" -> parsed.config.participant_id
      [] k = "git_password"   -> parsed.config.git_password
      [] k = "project"        -> parsed.config.project

\* the segments that are a pair with key k
PairsWithKey(k) ==
    {i \in 1..Len(pairs) : pairs[i].shape = "pair" /\ pairs[i].key = <<k>>}

LastWithKey(k) == CHOOSE i \in PairsWithKey(k) : \A j \in PairsWithKey(k) : j <= i

WellFormed == \A i \in 1..Len(pairs) : pairs[i].shape = "pair"

HasAllKeys == \A k \in Required : PairsWithKey(k) # {}

\* C1: parse_config returns a Configuration only when each of the three
\* required keys is the key of some pair, and then each field is the value of
\* a pair with the matching key; when a required key is missing no
\* Configuration is returned; with a log sink the call returns Some or None.
C1_AllOrNothing ==
    Returned =>
        /\ parsed.kind = "Some" =>
              \A k \in Required :
                  \E i \in PairsWithKey(k) : Field(k) = pairs[i].val
        /\ ~HasAllKeys => parsed.kind # "Some"
        /\ log_file.open => parsed.kind \in {"Some", "None"}

C1_Witness ==
    \/ /\ parsed.kind = "Some" /\ Len(pairs) = 4
    \/ /\ parsed.kind = "None" /\ PairsWithKey("git_password") = {}
       /\ PairsWithKey("participant_id") # {} /\ PairsWithKey("project") # {}

\* C2: a text of well-formed pairs that has the three required keys, in any
\* order and next to unrecognized keys, parses to the trimmed values written
\* for those keys.
C2_ValidInputParses ==
    (Returned /\ WellFormed /\ HasAllKeys) =>
        /\ parsed.kind = "Some"
        /\ \A k \in Required : Field(k) = pairs[LastWithKey(k)].val

C2_Witness ==
    /\ parsed.kind = "Some"
    /\ Len(pairs) = 4
    /\ pairs[1].key = <<"project">>
    /\ pairs[2].key = <<"extra">>
    /\ pairs[3].key = <<"git_password">>
    /\ pairs[4].key = <<"participant_id">>
    /\ parsed.config = [participant_id |-> <<"592089">>,
                        git_password |-> <<"p1">>, project |-> <<"p1">>]
    /\ text[Len(text)] = "\n"

\* C3: a segment with no colon or with more than one colon makes parse_config
\* return no result, also when the three required keys are in other segments.
C3_MalformedSegmentFails ==
    (Returned /\ ~WellFormed) =>
        /\ parsed.kind # "Some"
        /\ log_file.open => parsed.kind = "None"

C3_Witness ==
    /\ parsed.kind = "None"
    /\ HasAllKeys
    /\ \E i \in 1..Len(pairs) : pairs[i].shape = "twocolons"

\* C4: parse_config without a log sink returns Some for the quoted text of
\* tests::test_read_config.
C4_TestReadConfig ==
    (Returned /\ text = TestText /\ ~log_file.open) => parsed.kind = "Some"

\* ------------------------------------------------------------------------
\* main
\* ------------------------------------------------------------------------
DEBUG == TRUE
SERVER == "git.goto.ucsd.edu"

ConfigTxt == <<"config.txt">>
RustcVersion == <<"changelog", "rustc.version">>

\* bytes that are not UTF-8: read_to_string fails on them
InvalidUtf8 == <<"\\xff">>

\* build.rs:208-226
read_config(sink, f, e) ==
    IF ConfigTxt \notin DOMAIN f \/ ConfigTxt \in e.copyErr
    THEN Fail(sink, << <<"failed to open config.txt">> >>)
    ELSE IF f[ConfigTxt].kind # "file" \/ f[ConfigTxt].data = InvalidUtf8
    THEN Fail(sink, << <<"failed to read config.txt: ", "stream did not contain valid UTF-8">> >>)
    ELSE parse_config(sink, f[ConfigTxt].data)

\* a mutant of AfterReadConfig: the run goes on without a configuration
AfterReadConfigGoesOn(kind) ==
    IF kind = "Panic" THEN "panicked" ELSE "create_dir"

\* build.rs:35-38  where main goes once read_config has returned
AfterReadConfig(kind) ==
    CASE kind = "Some"  -> "create_dir"
      [] kind = "None"  -> "done"
      [] kind = "Panic" -> "panicked"

\* build.rs:64
RepoUrl(c) ==
    <<"https", ":", "//">> \o c.participant_id \o <<":">> \o c.git_password
      \o <<"@", SERVER, "/">> \o c.participant_id \o <<"/">> \o c.project \o <<".git">>

\* the lines main writes itself; its sink is open from build.rs:24 on
Say(sink, msgs) == [sink EXCEPT !.lines = @ \o msgs]

RepoExists(f) == IsDir(f, changelog_path \o DotGit)

\* how an external command can end: it cannot be launched, it exits with a
\* failure status, or it succeeds, which git needs a repository for
Outcomes(f) ==
    IF RepoExists(f) THEN {"ok", "fail", "spawn_err"} ELSE {"fail", "spawn_err"}

Ran(cmd, o) == Append(gitOps, [cmd |-> cmd, outcome |-> o])

Panics(msg) == pc' = "panicked" /\ panic' = msg

\* build.rs:20-31  a build starts: open_log, read_dir(manifest_dir)
StartRun ==
    /\ pc \in {"idle", "done", "panicked"}
    /\ runs < MaxRuns
    /\ runs' = runs + 1
    /\ gitOps' = <<>>
    /\ fsAtStart' = fs
    /\ config' = Unread
    /\ mirrored' = NoMirror
    /\ \E logOk \in BOOLEAN, dirOk \in BOOLEAN :
          IF ~DEBUG
          THEN /\ Panics("failed to open log file")
               /\ log_file' = NoSink
          ELSE IF ~logOk
          THEN /\ Panics("Couldn't open log file for writing")
               /\ log_file' = NoSink
          ELSE /\ log_file' = Say(EmptySink, << <<"opened log...">> >>)
               /\ pc' = IF dirOk THEN "read_config" ELSE "done"
               /\ panic' = ""
    /\ UNCHANGED <<fs, env, remote, edits, count, afterFirst, text, pairs, parsed>>

\* build.rs:33-38
ReadConfig ==
    /\ pc = "read_config"
    /\ LET r == read_config(log_file, fs, env)
       IN  /\ log_file' = r.sink
           /\ config' = [kind |-> r.kind, val |-> r.config]
           /\ pc' = AfterReadConfig(r.kind)
           /\ panic' = IF r.kind = "Panic" THEN "failed to write log" ELSE ""
    /\ UNCHANGED <<fs, env, remote, edits, count, afterFirst, text, pairs, parsed,
                   gitOps, runs, fsAtStart, mirrored>>

\* build.rs:40-44  std::fs::create_dir(changelog_path)
CreateDirectory ==
    /\ pc = "create_dir"
    /\ log_file' = Say(log_file, << <<"creating directory...">> >>)
    /\ IF changelog_path \notin DOMAIN fs
       THEN fs' = Put(fs, changelog_path, Dir) /\ pc' = "git_init"
       ELSE fs' = fs /\ pc' = "copy"
    /\ UNCHANGED <<env, remote, edits, count, afterFirst, text, pairs, parsed,
                   gitOps, runs, fsAtStart, mirrored, config, panic>>

\* build.rs:46-50  git init in the new directory
GitInit ==
    /\ pc = "git_init"
    /\ \E o \in {"ok", "fail", "spawn_err"} :
          /\ gitOps' = Ran("init", o)
          /\ fs' = IF o = "ok" THEN Put(fs, changelog_path \o DotGit, Dir) ELSE fs
          /\ IF o = "spawn_err"
             THEN Panics("failed to execute git init")
             ELSE pc' = "remote_add" /\ panic' = panic
    /\ UNCHANGED <<env, remote, edits, count, afterFirst, text, pairs, parsed,
                   runs, fsAtStart, mirrored, config, log_file>>

\* std::fs::remove_dir: removes a directory only when it is empty
remove_dir(f, p) ==
    IF IsDir(f, p) /\ p \in DOMAIN f /\ Children(f, p) = {} THEN Without(f, {p}) ELSE f

\* build.rs:52-70  the project check and git remote add origin
RemoteAdd ==
    /\ pc = "remote_add"
    /\ log_file' = Say(log_file, << <<"project: ">>, config.val.project >>)
    /\ IF Len(config.val.project) = 0
       THEN /\ fs' = remove_dir(fs, changelog_path)
            /\ Panics("Project not specified in config.txt")
            /\ UNCHANGED <<gitOps, remote>>
       ELSE /\ fs' = fs
            /\ \E o \in Outcomes(fs) :
                  /\ gitOps' = Ran("remote add", o)
                  /\ remote' = IF o = "ok" THEN Some(RepoUrl(config.val)) ELSE remote
                  /\ IF o = "spawn_err"
                     THEN Panics("failed to execute git remote add")
                     ELSE pc' = "copy" /\ panic' = panic
    /\ UNCHANGED <<env, edits, count, afterFirst, text, pairs, parsed,
                   runs, fsAtStart, mirrored, config>>

\* build.rs:72-73
CopyFiles ==
    /\ pc = "copy"
    /\ LET st == copy_files_to_changelog(
                    [fs |-> fs, sink |-> Say(log_file, << <<"copying files...">> >>),
                     written |-> {}, status |-> "ok"],
                    env, <<>>)
       IN  /\ fs' = st.fs
           /\ log_file' = st.sink
           /\ mirrored' = [written |-> st.written, status |-> st.status]
           /\ IF st.status = "panic"
              THEN Panics("copy_files_to_changelog")
              ELSE pc' = "version" /\ panic' = panic
    /\ UNCHANGED <<env, remote, edits, count, afterFirst, text, pairs, parsed,
                   gitOps, runs, fsAtStart, config>>

\* build.rs:75, 84-94  write_rustc_version
WriteRustcVersion ==
    /\ pc = "version"
    /\ \E o \in {"ok", "fail", "spawn_err"} :
          LET stdout == IF o = "ok" THEN <<"rustc 1.69.0", "\n">> ELSE <<>>
          IN  IF o = "spawn_err"
              THEN Panics("failed to execute rustc --version") /\ fs' = fs
              ELSE IF ~IsDir(fs, changelog_path) \/ IsDir(fs, RustcVersion)
              THEN Panics("Couldn't open rustc version file") /\ fs' = fs
              ELSE /\ fs' = Put(fs, RustcVersion, File(stdout \o <<"\n">>))
                   /\ pc' = "add"
                   /\ panic' = panic
    /\ UNCHANGED <<env, remote, edits, count, afterFirst, text, pairs, parsed,
                   gitOps, runs, fsAtStart, mirrored, config, log_file>>

\* build.rs:77, 152-159  git add *
GitAdd ==
    /\ pc = "add"
    /\ \E o \in Outcomes(fs) :
          /\ gitOps' = Ran("add", o)
          /\ log_file' = Say(log_file, << <<"committing to git...">> >>
                               \o IF o = "fail" THEN << <<"failed to add files to git">> >> ELSE <<>>)
          /\ IF o = "spawn_err"
             THEN Panics("failed to execute git add")
             ELSE pc' = "commit" /\ panic' = panic
    /\ UNCHANGED <<fs, env, remote, edits, count, afterFirst, text, pairs, parsed,
                   runs, fsAtStart, mirrored, config>>

\* build.rs:161-169  git commit -a -m "changelog update"
GitCommit ==
    /\ pc = "commit"
    /\ \E o \in Outcomes(fs) :
          /\ gitOps' = Ran("commit", o)
          /\ log_file' = Say(log_file,
                               IF o = "fail"
                               THEN << <<"failed to commit files to git">>, <<"exit status: 1">> >>
                               ELSE <<>>)
          /\ IF o = "spawn_err"
             THEN Panics("failed to execute git add")
             ELSE pc' = "push" /\ panic' = panic
    /\ UNCHANGED <<fs, env, remote, edits, count, afterFirst, text, pairs, parsed,
                   runs, fsAtStart, mirrored, config>>

\* build.rs:80-81, 275-286  git push --set-upstream origin main
GitPush ==
    /\ pc = "push"
    /\ \E o \in IF remote.some THEN Outcomes(fs) ELSE {"fail", "spawn_err"} :
          /\ gitOps' = Ran("push", o)
          /\ log_file' = Say(log_file, << <<"pushing...">> >>
                               \o IF o = "spawn_err"
                                  THEN << <<"failed to push">>, <<"No such file or directory">> >>
                                  ELSE <<>>)
    /\ pc' = "done"
    /\ UNCHANGED <<fs, env, remote, edits, count, afterFirst, text, pairs, parsed,
                   runs, fsAtStart, mirrored, config, panic>>

\* ------------------------------------------------------------------------
\* Builds
\* ------------------------------------------------------------------------
GoodText ==
    <<"participant_id", ":", " ", "592089", ",", " ",
      "git_password", ":", " ", "985613", ",", " ",
      "project", ":", " ", "p1">>

EmptyProjectText ==
    <<"participant_id", ":", " ", "592089", ",", " ",
      "git_password", ":", " ", "985613", ",", " ",
      "project", ":", " ">>

MissingPasswordText ==
    <<"participant_id", ":", " ", "592089", ",", " ", "project", ":", " ", "p1">>

MalformedText == GoodText \o <<",", " ", "extra", ":", " ", "value", ",", " ", "oops">>

BadConfigBytes == {MissingPasswordText, MalformedText, InvalidUtf8}

ConfigOptions ==
    {Empty} \cup
    {Put(Empty, ConfigTxt, File(t)) : t \in {GoodText, EmptyProjectText} \cup BadConfigBytes}

RunTrees ==
    { WithGit(Merge(s, Put(Empty, CargoToml, File(<<"v1">>))), g) :
        s \in {Empty, Put(Put(Empty, SrcDir, Dir), MainRs, File(<<"v1">>))},
        g \in BOOLEAN }

RunEnvs ==
    [ignored  : AtMostOne({ConfigTxt}),
     spawnErr : AtMostOne({CargoToml}),
     copyErr  : AtMostOne({ConfigTxt, CargoToml}),
     readErr  : AtMostOne({SrcDir}),
     rev      : {FALSE}]

Init ==
    /\ fs \in {Merge(t, c) : t \in RunTrees, c \in ConfigOptions}
    /\ env \in RunEnvs
    /\ log_file = NoSink
    /\ mirrored = NoMirror
    /\ count = 0 /\ afterFirst = Empty /\ edits = 0
    /\ text = <<>> /\ pairs = <<>> /\ parsed = NotParsed
    /\ RunIdle

\* the user rewrites, creates or deletes config.txt between two builds
EditConfig ==
    /\ pc \in {"done", "panicked"}
    /\ edits < MaxEdits
    /\ \E c \in ConfigOptions : fs' = Merge(Without(fs, {ConfigTxt}), c)
    /\ fs' # fs
    /\ edits' = edits + 1
    /\ pc' = "idle"
    /\ config' = Unread
    /\ gitOps' = <<>>
    /\ panic' = ""
    /\ fsAtStart' = fs'
    /\ mirrored' = NoMirror
    /\ UNCHANGED <<env, remote, count, afterFirst, text, pairs, parsed, runs, log_file>>

Next ==
    \/ StartRun
    \/ ReadConfig
    \/ CreateDirectory
    \/ GitInit
    \/ RemoteAdd
    \/ CopyFiles
    \/ WriteRustcVersion
    \/ GitAdd
    \/ GitCommit
    \/ GitPush
    \/ EditConfig

Spec == Init /\ [][Next]_vars

\* ------------------------------------------------------------------------
\* Claims about a build
\* ------------------------------------------------------------------------
\* config.txt as the run found it cannot be read into a Configuration
ConfigBad ==
    \/ ConfigTxt \notin DOMAIN fsAtStart
    \/ ConfigTxt \in env.copyErr
    \/ fsAtStart[ConfigTxt].data \in BadConfigBytes

\* C8: when config.txt is missing, unreadable or malformed, read_config
\* returns None and the run ends without a panic and without an effect: the
\* manifest directory is as the run found it (no changelog directory, no
\* repository, no mirrored file, no rustc.version), and no command was run.
C8_NoConfigNoEffect ==
    /\ config.kind # "unread" => (config.kind = "None" <=> ConfigBad)
    /\ config.kind = "None" =>
          /\ pc = "done"
          /\ panic = ""
          /\ fs = fsAtStart
          /\ gitOps = <<>>
          /\ mirrored = NoMirror

C8_Witness ==
    /\ config.kind = "None"
    /\ pc = "done"
    /\ changelog_path \notin DOMAIN fs
    /\ MainRs \in DOMAIN fs
    /\ ConfigTxt \in DOMAIN fs
    /\ fs[ConfigTxt].data = MalformedText

Bootstrapped == \E i \in 1..Len(gitOps) : gitOps[i].cmd \in {"init", "remote add"}

\* C9: the bootstrap runs only in a run that found no changelog directory,
\* and a run aborted for an empty project leaves no changelog directory
\* behind.
C9_EmptyProjectRemovesDirectory ==
    /\ Bootstrapped => changelog_path \notin DOMAIN fsAtStart
    /\ panic = "Project not specified in config.txt" => changelog_path \notin DOMAIN fs

DriverCmds == SelectSeq(gitOps, LAMBDA op : op.cmd \in {"add", "commit", "push"})

HasLine(msg) == \E i \in 1..Len(Lines) : Lines[i] = msg

FailureLine(cmd) ==
    CASE cmd = "add"    -> <<"failed to add files to git">>
      [] cmd = "commit" -> <<"failed to commit files to git">>
      [] cmd = "push"   -> <<"failed to push">>

\* C10: a run that reaches the driver attempts add, commit and push once
\* each, in that order, and logs every one of them that fails.
C10_DriverLogsAndContinues ==
    (pc \in {"done", "panicked"} /\ DriverCmds # <<>>) =>
        /\ [i \in 1..Len(DriverCmds) |-> DriverCmds[i].cmd] = <<"add", "commit", "push">>
        /\ \A i \in 1..Len(DriverCmds) :
              DriverCmds[i].outcome # "ok" => HasLine(FailureLine(DriverCmds[i].cmd))

====
